---- MODULE Spec2Model ----
(***************************************************************************)
(* Model of the fletcher-simd checksum engine (src/src/lib.rs).            *)
(*                                                                         *)
(* A block value (u8, u16, u32, u64) is a little-endian base-256 numeral:  *)
(* a sequence of size_of(BlockType) digits in 0..255, digit 1 the least    *)
(* significant.  All four instantiations of impl_fletcher! keep their real *)
(* width; every arithmetic operator works digit by digit with carries, so  *)
(* wrap-around happens exactly at 2^8, 2^16, 2^32 and 2^64.                *)
(***************************************************************************)
EXTENDS Integers, Sequences, FiniteSets, TLC

VARIABLES w, stream, f, built, hist, last, ret, panicked

vars == <<w, stream, f, built, hist, last, ret, panicked>>

(***************************************************************************)
(* Bounds of the model.                                                    *)
(***************************************************************************)
\* The largest number of full lane-groups one update call is given; the
\* long input stream holds one group more, less one element.
MaxGroups == 2

(***************************************************************************)
(* Unsigned fixed-width arithmetic on numerals.                            *)
(***************************************************************************)
\* Bits in one byte (the factor 8 of MAX_VEC_SIZE and of SHIFT_SIZE).
BITS_PER_BYTE == 8

Radix == 2 ^ BITS_PER_BYTE

Zero(n) == [i \in 1..n |-> 0]

RECURSIVE AddCarry(_, _, _, _)
AddCarry(x, y, i, c) ==
    IF i > Len(x) THEN <<>>
    ELSE LET s == x[i] + y[i] + c
         IN  <<s % Radix>> \o AddCarry(x, y, i + 1, s \div Radix)

\* WrappingAdd::wrapping_add: the sum modulo 2^(8 * Len(x)); the carry out
\* of the top digit is dropped.
wrapping_add(x, y) == AddCarry(x, y, 1, 0)

RECURSIVE SubBorrow(_, _, _, _)
SubBorrow(x, y, i, br) ==
    IF i > Len(x) THEN <<>>
    ELSE LET d == x[i] - y[i] - br
         IN  IF d < 0 THEN <<d + Radix>> \o SubBorrow(x, y, i + 1, 1)
                      ELSE <<d>> \o SubBorrow(x, y, i + 1, 0)

\* WrappingSub::wrapping_sub: the difference modulo 2^(8 * Len(x)).
wrapping_sub(x, y) == SubBorrow(x, y, 1, 0)

RECURSIVE MulDigit(_, _, _, _)
MulDigit(d, y, j, c) ==
    IF j > Len(y) THEN <<>>
    ELSE LET p == d * y[j] + c
         IN  <<p % Radix>> \o MulDigit(d, y, j + 1, p \div Radix)

ShiftDigits(y, k) == [j \in 1..Len(y) |-> IF j <= k THEN 0 ELSE y[j - k]]

RECURSIVE MulAcc(_, _, _)
MulAcc(x, y, i) ==
    IF i > Len(x) THEN Zero(Len(x))
    ELSE IF x[i] = 0 THEN MulAcc(x, y, i + 1)
    ELSE wrapping_add(ShiftDigits(MulDigit(x[i], y, 1, 0), i - 1),
                      MulAcc(x, y, i + 1))

\* WrappingMul::wrapping_mul: the product modulo 2^(8 * Len(x)).
wrapping_mul(x, y) == MulAcc(x, y, 1)

RECURSIVE UsizeDigits(_, _)
UsizeDigits(n, k) ==
    IF k = 0 THEN <<>> ELSE <<n % Radix>> \o UsizeDigits(n \div Radix, k - 1)

RECURSIVE UsizeShr(_, _)
UsizeShr(n, k) == IF k = 0 THEN n ELSE UsizeShr(n \div Radix, k - 1)

\* BlockType::try_from(usize): Ok(value) when n fits the block type, Err
\* otherwise (the caller unwraps, so Err is a panic).
try_from(n, size) ==
    [ok |-> UsizeShr(n, size) = 0, val |-> UsizeDigits(n, size)]

(***************************************************************************)
(* Simd<BlockType, LANES>: a function from lane index 0..LANES-1 to block  *)
(* values.  The operators are lane-wise and wrapping, as in core::simd.    *)
(***************************************************************************)
\* Variant of SimdDefault: every lane starts at one instead of zero.
SimdDefault_ones(LANES, size) ==
    [i \in 0..(LANES - 1) |-> [d \in 1..size |-> IF d = 1 THEN 1 ELSE 0]]

\* Simd::default(): every lane zero.
SimdDefault(LANES, size) == [i \in 0..(LANES - 1) |-> Zero(size)]

SimdAdd(u, v) == [i \in DOMAIN u |-> wrapping_add(u[i], v[i])]

SimdMul(u, v) == [i \in DOMAIN u |-> wrapping_mul(u[i], v[i])]

\* The wrapping sum of lanes lo..hi (wrapping addition is associative, so
\* the pairing does not matter).
RECURSIVE ReduceSum(_, _, _)
ReduceSum(v, lo, hi) ==
    IF lo = hi THEN v[lo]
    ELSE LET mid == (lo + hi) \div 2
         IN  wrapping_add(ReduceSum(v, lo, mid), ReduceSum(v, mid + 1, hi))

\* Variant of horizontal_sum: the last lane is left out of the reduction.
horizontal_sum_skip_last(v, LANES) == ReduceSum(v, 0, LANES - 2)

\* FletcherSimdVec::horizontal_sum = Simd::reduce_sum (wrapping).
horizontal_sum(v, LANES) == ReduceSum(v, 0, LANES - 1)

\* Variant of SimdStep: b_accum takes a_accum before the group is added.
SimdStep_b_first(acc, elem) ==
    [a_accum |-> SimdAdd(acc.a_accum, elem),
     b_accum |-> SimdAdd(acc.b_accum, acc.a_accum)]

\* One iteration of the for loop of update_fletcher_simd.
SimdStep(acc, elem) ==
    LET na == SimdAdd(acc.a_accum, elem)
    IN  [a_accum |-> na, b_accum |-> SimdAdd(acc.b_accum, na)]

\* The for loop over elems[lo..hi], in order (the range is halved to keep
\* the evaluation shallow; the iterations run left to right).
RECURSIVE SimdLoop(_, _, _, _)
SimdLoop(acc, elems, lo, hi) ==
    IF lo > hi THEN acc
    ELSE IF lo = hi THEN SimdStep(acc, elems[lo])
    ELSE LET mid == (lo + hi) \div 2
         IN  SimdLoop(SimdLoop(acc, elems, lo, mid), elems, mid + 1, hi)

\* update_fletcher_simd: elems is the sequence of lane-groups the iterator
\* yields.  ok is FALSE when one of the two unwrap() calls panics.
update_fletcher_simd(a, b, elems, LANES) ==
    LET size    == Len(a)
        acc     == SimdLoop([a_accum |-> SimdDefault(LANES, size),
                             b_accum |-> SimdDefault(LANES, size)],
                            elems, 1, Len(elems))
        a1      == wrapping_add(a, horizontal_sum(acc.a_accum, LANES))
        lanes   == try_from(LANES, size)
        b_prime == wrapping_mul(lanes.val, horizontal_sum(acc.b_accum, LANES))
        b1      == wrapping_add(b, b_prime)
        increasing_mask == [i \in 0..(LANES - 1) |-> try_from(i, size).val]
        mask_ok == \A i \in 0..(LANES - 1) : try_from(i, size).ok
        sub_a   == SimdMul(acc.a_accum, increasing_mask)
        b2      == wrapping_sub(b1, horizontal_sum(sub_a, LANES))
    IN  IF lanes.ok /\ mask_ok
        THEN [a |-> a1, b |-> b2, ok |-> TRUE]
        ELSE [a |-> a, b |-> b, ok |-> FALSE]

\* Variant of ScalarStep: b takes a before the element is added.
ScalarStep_b_first(st, elem) ==
    [a |-> wrapping_add(st.a, elem), b |-> wrapping_add(st.b, st.a), ok |-> TRUE]

\* One iteration of the for loop of update_fletcher_scalar.
ScalarStep(st, elem) ==
    LET a1 == wrapping_add(st.a, elem)
    IN  [a |-> a1, b |-> wrapping_add(st.b, a1), ok |-> TRUE]

\* The for loop over elems[lo..hi], in order (the range is halved to keep
\* the evaluation shallow; the iterations run left to right).
RECURSIVE ScalarLoop(_, _, _, _)
ScalarLoop(st, elems, lo, hi) ==
    IF lo > hi THEN st
    ELSE IF lo = hi THEN ScalarStep(st, elems[lo])
    ELSE LET mid  == (lo + hi) \div 2
             left == ScalarLoop(st, elems, lo, mid)
         IN  IF left.ok THEN ScalarLoop(left, elems, mid + 1, hi) ELSE left

\* update_fletcher_scalar: the sequential recurrence.
update_fletcher_scalar(a, b, elems) ==
    ScalarLoop([a |-> a, b |-> b, ok |-> TRUE], elems, 1, Len(elems))

(***************************************************************************)
(* impl_fletcher!: the four instantiations of Fletcher<T>.  A width is the *)
(* bit count of the result type: 16, 32, 64 or 128.                        *)
(***************************************************************************)
Widths == {16, 32, 64, 128}

\* $block_size, the third argument of impl_fletcher!.
block_size(wd) == CASE wd = 16 -> 1 [] wd = 32 -> 2 [] wd = 64 -> 4 [] wd = 128 -> 8

\* size_of::<$block_type>() for u8, u16, u32, u64.
size_of_block_type(wd) ==
    CASE wd = 16 -> 1 [] wd = 32 -> 2 [] wd = 64 -> 4 [] wd = 128 -> 8

\* size_of::<$result_type>() for u16, u32, u64, u128.
size_of_result_type(wd) == wd \div BITS_PER_BYTE

MAX_VEC_SIZE == 256 \div BITS_PER_BYTE

NUM_LANES(wd) == MAX_VEC_SIZE \div block_size(wd)

\* Fletcher::default(): both halves zero.
Default(wd) ==
    [a |-> Zero(size_of_block_type(wd)), b |-> Zero(size_of_block_type(wd))]

\* Fletcher::new.
new(wd) == Default(wd)

\* Fletcher::with_initial_values.
with_initial_values(a, b) == [a |-> a, b |-> b]

\* slice::chunks(n): consecutive runs of n elements, the last one shorter
\* when n does not divide the length.
Chunks(s, n) ==
    [k \in 1..((Len(s) + n - 1) \div n) |->
        SubSeq(s, (k - 1) * n + 1, IF k * n <= Len(s) THEN k * n ELSE Len(s))]

\* Simd::from_slice: the first LANES elements; panics on a shorter slice.
from_slice(slice, LANES) ==
    [ok  |-> Len(slice) >= LANES,
     val |-> [i \in 0..(LANES - 1) |->
                IF i + 1 <= Len(slice) THEN slice[i + 1] ELSE Zero(0)]]

\* Fletcher::update_with_slice.  The result carries the new halves and
\* ok = FALSE when a step of the call panics.
update_with_slice(wd, self, data) ==
    LET L      == NUM_LANES(wd)
        mid    == Len(data) - (Len(data) % L)
        simd_slice      == SubSeq(data, 1, mid)
        remainder_slice == SubSeq(data, mid + 1, Len(data))
        chunks == Chunks(simd_slice, L)
        groups == [k \in 1..Len(chunks) |-> from_slice(chunks[k], L).val]
        s1     == IF simd_slice # <<>>
                  THEN update_fletcher_simd(self.a, self.b, groups, L)
                  ELSE [a |-> self.a, b |-> self.b, ok |-> TRUE]
        s2     == IF remainder_slice # <<>>
                  THEN update_fletcher_scalar(s1.a, s1.b, remainder_slice)
                  ELSE s1
    IN  IF data = <<>> THEN [a |-> self.a, b |-> self.b, ok |-> TRUE]
        ELSE IF mid < 0 \/ mid > Len(data)
                \/ \E k \in 1..Len(chunks) : ~from_slice(chunks[k], L).ok
                \/ ~s1.ok
             THEN [a |-> self.a, b |-> self.b, ok |-> FALSE]
             ELSE [a |-> s2.a, b |-> s2.b, ok |-> s2.ok]

\* Variant of Closure: simd_size is not reset when a lane-group is yielded.
Closure_no_reset(st, elem, L) ==
    IF ~st.ok THEN st
    ELSE IF st.simd_size >= L THEN [st EXCEPT !.ok = FALSE]
    ELSE LET v == [st.simd_vec EXCEPT ![st.simd_size] = elem]
             n == st.simd_size + 1
         IN  [simd_vec |-> v, simd_size |-> n,
              out |-> IF n = L THEN Append(st.out, v) ELSE st.out, ok |-> TRUE]

\* The filter_map closure of update_with_iter applied to one element: st
\* holds the captured simd_vec and simd_size, the lane-groups yielded so
\* far (out), and ok, FALSE once the write simd_vec[simd_size] was out of
\* bounds.
Closure(st, elem, L) ==
    IF ~st.ok THEN st
    ELSE IF st.simd_size >= L THEN [st EXCEPT !.ok = FALSE]
    ELSE LET v == [st.simd_vec EXCEPT ![st.simd_size] = elem]
             n == st.simd_size + 1
         IN  IF n = L
             THEN [simd_vec |-> v, simd_size |-> 0,
                   out |-> Append(st.out, v), ok |-> TRUE]
             ELSE [simd_vec |-> v, simd_size |-> n,
                   out |-> st.out, ok |-> TRUE]

\* filter_map over elems[lo..hi], in order.
RECURSIVE FilterMap(_, _, _, _, _)
FilterMap(st, elems, lo, hi, L) ==
    IF lo > hi THEN st
    ELSE IF lo = hi THEN Closure(st, elems[lo], L)
    ELSE LET mid  == (lo + hi) \div 2
             left == FilterMap(st, elems, lo, mid, L)
         IN  IF left.ok THEN FilterMap(left, elems, mid + 1, hi, L) ELSE left

\* Variant of update_with_iter: the buffered remainder is never folded.
update_with_iter_no_remainder(wd, self, elems) ==
    LET L  == NUM_LANES(wd)
        fm == FilterMap([simd_vec |-> SimdDefault(L, size_of_block_type(wd)),
                         simd_size |-> 0, out |-> <<>>, ok |-> TRUE],
                        elems, 1, Len(elems), L)
        s1 == update_fletcher_simd(self.a, self.b, fm.out, L)
    IN  IF ~fm.ok \/ ~s1.ok
        THEN [a |-> self.a, b |-> self.b, ok |-> FALSE]
        ELSE s1

\* Fletcher::update_with_iter.
update_with_iter(wd, self, elems) ==
    LET L    == NUM_LANES(wd)
        fm   == FilterMap([simd_vec |-> SimdDefault(L, size_of_block_type(wd)),
                           simd_size |-> 0, out |-> <<>>, ok |-> TRUE],
                          elems, 1, Len(elems), L)
        s1   == update_fletcher_simd(self.a, self.b, fm.out, L)
        rest == [idx \in 1..fm.simd_size |-> fm.simd_vec[idx - 1]]
        s2   == IF fm.simd_size > 0
                THEN update_fletcher_scalar(s1.a, s1.b, rest)
                ELSE s1
    IN  IF ~fm.ok \/ ~s1.ok
        THEN [a |-> self.a, b |-> self.b, ok |-> FALSE]
        ELSE [a |-> s2.a, b |-> s2.b, ok |-> s2.ok]

\* Fletcher::update_with_iter_scalar.
update_with_iter_scalar(wd, self, elems) ==
    update_fletcher_scalar(self.a, self.b, elems)

\* x as $result_type: zero-extension (or truncation) to n digits.
CastTo(x, n) == [i \in 1..n |-> IF i <= Len(x) THEN x[i] ELSE 0]

RECURSIVE Doubled(_, _)
Doubled(x, k) == IF k = 0 THEN x ELSE Doubled(wrapping_add(x, x), k - 1)

\* x << k on a fixed-width unsigned integer: bits shifted out at the top
\* are lost.
Shl(x, k) == Doubled(ShiftDigits(x, k \div BITS_PER_BYTE), k % BITS_PER_BYTE)

RECURSIVE BitOrNat(_, _)
BitOrNat(m, n) ==
    IF m = 0 THEN n
    ELSE IF n = 0 THEN m
    ELSE (IF m % 2 = 1 \/ n % 2 = 1 THEN 1 ELSE 0) + 2 * BitOrNat(m \div 2, n \div 2)

\* x | y.
BitOr(x, y) == [i \in 1..Len(x) |-> BitOrNat(x[i], y[i])]

\* Variant of value: a is shifted into the high half and b is the low half.
value_swapped(wd, self) ==
    LET SHIFT_SIZE == size_of_block_type(wd) * BITS_PER_BYTE
        n          == size_of_result_type(wd)
    IN  [ok  |-> SHIFT_SIZE < n * BITS_PER_BYTE,
         val |-> BitOr(Shl(CastTo(self.a, n), SHIFT_SIZE), CastTo(self.b, n))]

\* Fletcher::value.  ok is FALSE when the shift amount is not below the
\* bit width of the result type (an overflow panic of <<).
value(wd, self) ==
    LET SHIFT_SIZE == size_of_block_type(wd) * BITS_PER_BYTE
        n          == size_of_result_type(wd)
    IN  [ok  |-> SHIFT_SIZE < n * BITS_PER_BYTE,
         val |-> BitOr(Shl(CastTo(self.b, n), SHIFT_SIZE), CastTo(self.a, n))]

(***************************************************************************)
(* The caller.  One checksum object of one width is constructed and then   *)
(* fed an input stream piece by piece, each piece through any of the three *)
(* update methods; value() may be read at any point.                       *)
(*   w        the width of the object (fixed at construction time)         *)
(*   stream   the input stream the caller reads: a sequence of blocks      *)
(*   f        the object: its halves a and b                               *)
(*   built    the constructor call that made f, with the halves it set     *)
(*   hist     every element pushed into f so far, in order                 *)
(*   last     the most recent update call: op, halves before it, argument  *)
(*   ret      what the most recent call returned: <<>> for the unit value  *)
(*            of a constructor or update, the checksum for value()         *)
(*   panicked TRUE once a call has panicked                                *)
(***************************************************************************)
Streams == {"abcdefgh", "high"}

\* Byte j (from 0) of a stream: the ASCII text "abcdefgh", or the bytes
\* F9 FA .. FF 00 repeated.
Byte(s, j) ==
    IF s = "abcdefgh" THEN 97 + (j % 8) ELSE (249 + (j % 8)) % Radix

\* Number of blocks in a stream: the eight bytes of "abcdefgh", or
\* MaxGroups + 1 lane-groups less one element.
StreamLen(s, wd) ==
    IF s = "abcdefgh" THEN 8 \div size_of_block_type(wd)
    ELSE (MaxGroups + 1) * NUM_LANES(wd) - 1

\* as_bytes().chunks(size).map(LittleEndian::read_uN): element k (from 0)
\* is the numeral whose digit d is byte k * size + d - 1.
Block(s, wd, k) ==
    [d \in 1..size_of_block_type(wd) |->
        Byte(s, k * size_of_block_type(wd) + d - 1)]

Data(s, wd) == [i \in 1..StreamLen(s, wd) |-> Block(s, wd, i - 1)]

\* Piece lengths the caller uses: up to MaxGroups full lane-groups followed
\* by no remainder or the longest one, or everything left of the stream.
Lens(wd, left) ==
    {n \in {g * NUM_LANES(wd) + r :
              g \in 0..MaxGroups, r \in {0, NUM_LANES(wd) - 1}} : n <= left}
    \cup {left}

One(n) == [i \in 1..n |-> IF i = 1 THEN 1 ELSE 0]

Max(n) == [i \in 1..n |-> Radix - 1]

\* Halves (a, b) the caller seeds an object with.
InitialValues(wd) ==
    LET n == size_of_block_type(wd)
    IN  {<<Max(n), One(n)>>}

Unit == <<>>

Init ==
    /\ w \in Widths
    /\ stream \in {Data(s, w) : s \in Streams}
    /\ f = Default(w)
    /\ built = [ctor |-> "none", self |-> Default(w)]
    /\ hist = <<>>
    /\ last = [op |-> "none", pre |-> Default(w), arg |-> <<>>]
    /\ ret = Unit
    /\ panicked = FALSE

New ==
    /\ built.ctor = "none"
    /\ f' = new(w)
    /\ built' = [ctor |-> "new", self |-> new(w)]
    /\ ret' = Unit
    /\ UNCHANGED <<w, stream, hist, last, panicked>>

WithInitialValues ==
    /\ built.ctor = "none"
    /\ \E p \in InitialValues(w) :
          /\ f' = with_initial_values(p[1], p[2])
          /\ built' = [ctor |-> "with_initial_values",
                       self |-> with_initial_values(p[1], p[2])]
    /\ ret' = Unit
    /\ UNCHANGED <<w, stream, hist, last, panicked>>

\* What an update call leaves behind: r is the result of the method.
Updated(op, data, r) ==
    /\ f' = [a |-> r.a, b |-> r.b]
    /\ panicked' = ~r.ok
    /\ hist' = hist \o data
    /\ last' = [op |-> op, pre |-> f, arg |-> data]
    /\ ret' = Unit
    /\ UNCHANGED <<w, stream, built>>

CanUpdate == built.ctor # "none" /\ ~panicked

\* The next n blocks of the stream.
Piece(n) == SubSeq(stream, Len(hist) + 1, Len(hist) + n)

UpdateWithSlice ==
    /\ CanUpdate
    /\ \E n \in Lens(w, Len(stream) - Len(hist)) :
          Updated("update_with_slice", Piece(n),
                  update_with_slice(w, f, Piece(n)))

UpdateWithIter ==
    /\ CanUpdate
    /\ \E n \in Lens(w, Len(stream) - Len(hist)) :
          Updated("update_with_iter", Piece(n),
                  update_with_iter(w, f, Piece(n)))

UpdateWithIterScalar ==
    /\ CanUpdate
    /\ \E n \in Lens(w, Len(stream) - Len(hist)) :
          Updated("update_with_iter_scalar", Piece(n),
                  update_with_iter_scalar(w, f, Piece(n)))

Value ==
    /\ CanUpdate
    /\ LET r == value(w, f)
       IN  /\ ret' = r.val
           /\ panicked' = ~r.ok
    /\ UNCHANGED <<w, stream, f, built, hist, last>>

Next ==
    \/ New
    \/ WithInitialValues
    \/ UpdateWithSlice
    \/ UpdateWithIter
    \/ UpdateWithIterScalar
    \/ Value

Spec == Init /\ [][Next]_vars

(***************************************************************************)
(* Helpers of the properties.                                              *)
(***************************************************************************)
Halves(r) == [a |-> r.a, b |-> r.b]

IsUpdate == last.op # "none"

\* The halves as a full-width numeral: a below b.
Concat(self) == self.a \o self.b

\* The blocks of the ASCII text "abcdefgh" in the block type of width wd.
Abcdefgh(wd) == Data("abcdefgh", wd)

\* The longest prefix of s whose length is a multiple of n, as lane-groups.
LaneGroups(s, n) ==
    [k \in 1..(Len(s) \div n) |-> [i \in 0..(n - 1) |-> s[(k - 1) * n + i + 1]]]

AlignedPrefix(s, n) == SubSeq(s, 1, Len(s) - (Len(s) % n))

\* The sum of digit d over s[lo..hi], as an integer.
RECURSIVE DigitSum(_, _, _, _)
DigitSum(s, d, lo, hi) ==
    IF lo > hi THEN 0
    ELSE IF lo = hi THEN s[lo][d]
    ELSE LET mid == (lo + hi) \div 2
         IN  DigitSum(s, d, lo, mid) + DigitSum(s, d, mid + 1, hi)

RECURSIVE Carried(_, _, _, _)
Carried(s, d, n, c) ==
    IF d > n THEN <<>>
    ELSE LET t == DigitSum(s, d, 1, Len(s)) + c
         IN  <<t % Radix>> \o Carried(s, d + 1, n, t \div Radix)

\* The sum of the blocks of s modulo 2^(8n), column by column: it does not
\* depend on the order of the blocks.
SumOf(s, n) == Carried(s, 1, n, 0)

\* x < y as numbers.
RECURSIVE LessFrom(_, _, _)
LessFrom(x, y, i) ==
    IF i = 0 THEN FALSE
    ELSE IF x[i] # y[i] THEN x[i] < y[i]
    ELSE LessFrom(x, y, i - 1)

Less(x, y) == LessFrom(x, y, Len(x))

\* The checksums of "abcdefgh", most significant byte first.
KnownBytes(wd) ==
    CASE wd = 16  -> <<248, 36>>                               \* F824
      [] wd = 32  -> <<235, 222, 149, 144>>                    \* EBDE9590
      [] wd = 64  -> <<49, 46, 43, 39, 204, 202, 200, 198>>    \* 312E2B27CCCAC8C6
      [] wd = 128 -> <<104, 103, 102, 101, 100, 99, 98, 97,
                       104, 103, 102, 101, 100, 99, 98, 97>>   \* 68676665646362616867666564636261

Known(wd) ==
    [i \in 1..Len(KnownBytes(wd)) |-> KnownBytes(wd)[Len(KnownBytes(wd)) + 1 - i]]

(***************************************************************************)
(* Properties.                                                             *)
(***************************************************************************)

\* C1: Equivalence law.  From the halves an update call started with, and
\* on the sequence it was given, update_with_slice, update_with_iter and
\* update_with_iter_scalar produce the same value().
C1_Equivalence ==
    IsUpdate =>
        LET bySlice  == value(w, Halves(update_with_slice(w, last.pre, last.arg))).val
            byIter   == value(w, Halves(update_with_iter(w, last.pre, last.arg))).val
            byScalar == value(w, Halves(update_with_iter_scalar(w, last.pre, last.arg))).val
        IN  bySlice = byIter /\ byIter = byScalar

\* C2: Additivity law.  For every split S = S1 ++ S2 of the sequence a call
\* of update_with_slice was given, update_with_slice(S1) followed by
\* update_with_slice(S2) leaves the halves the single call left.
C2_Additivity ==
    last.op = "update_with_slice" =>
        \A k \in 0..Len(last.arg) :
            LET S1    == SubSeq(last.arg, 1, k)
                S2    == SubSeq(last.arg, k + 1, Len(last.arg))
                first == Halves(update_with_slice(w, last.pre, S1))
            IN  Halves(update_with_slice(w, first, S2)) = f

\* C3: from a zero-initialized object, update_with_slice(S) gives the same
\* value() as the scalar recurrence over S, whatever the length of S.
C3_SliceMatchesScalarFromZero ==
    (last.op = "update_with_slice" /\ last.pre = new(w)) =>
        value(w, f).val =
            value(w, Halves(update_with_iter_scalar(w, new(w), last.arg))).val

\* C3 witness: a slice call on a fresh object with more than two lane-groups
\* and a remainder.
C3_Witness ==
    /\ last.op = "update_with_slice"
    /\ last.pre = new(w)
    /\ Len(last.arg) > 2 * NUM_LANES(w)
    /\ Len(last.arg) % NUM_LANES(w) # 0
    /\ ~panicked

\* C4: update_with_iter leaves exactly the halves update_with_slice leaves
\* from the same halves on the same sequence (and the other way round): the
\* full groups of NUM_LANES consecutive elements go through the vector path
\* in order, the trailing elements through the scalar path in order.
C4_IterMatchesSlice ==
    /\ last.op = "update_with_iter" =>
          /\ f = Halves(update_with_slice(w, last.pre, last.arg))
          /\ LET L      == NUM_LANES(w)
                 prefix == AlignedPrefix(last.arg, L)
                 folded == update_fletcher_simd(last.pre.a, last.pre.b,
                                                LaneGroups(last.arg, L), L)
             IN  f = Halves(update_fletcher_scalar(
                               folded.a, folded.b,
                               SubSeq(last.arg, Len(prefix) + 1, Len(last.arg))))
    /\ last.op = "update_with_slice" =>
          f = Halves(update_with_iter(w, last.pre, last.arg))

\* C4 witness: update_with_iter on an object whose a half is not zero, given
\* full lane-groups and a remainder.
C4_Witness ==
    /\ last.op = "update_with_iter"
    /\ last.pre.a # Zero(size_of_block_type(w))
    /\ Len(last.arg) > NUM_LANES(w)
    /\ Len(last.arg) % NUM_LANES(w) # 0
    /\ ~panicked

\* C5: Identity law.  An update with the empty sequence, through any of the
\* three methods, leaves the halves unchanged, and update_fletcher_simd
\* given no lane-group returns the halves it was given.
C5_Identity ==
    /\ (IsUpdate /\ last.arg = <<>>) => f = last.pre
    /\ update_fletcher_simd(f.a, f.b, <<>>, NUM_LANES(w)) =
          [a |-> f.a, b |-> f.b, ok |-> TRUE]

\* C5 witness: update_with_iter with the empty sequence on an object whose
\* halves are both non-zero.
C5_Witness ==
    /\ last.op = "update_with_iter"
    /\ last.arg = <<>>
    /\ f.a # Zero(size_of_block_type(w))
    /\ f.b # Zero(size_of_block_type(w))

\* C6: Known vectors.  A fresh object fed the blocks of "abcdefgh" through
\* update_with_slice or update_with_iter has value() F824, EBDE9590,
\* 312E2B27CCCAC8C6 or 68676665646362616867666564636261 by width.
C6_KnownVectors ==
    (/\ ret # Unit
     /\ last.op \in {"update_with_slice", "update_with_iter"}
     /\ last.pre = new(w)
     /\ last.arg = Abcdefgh(w)) => ret = Known(w)

\* C6 witness: value() read after update_with_iter over the four 32-bit
\* blocks of "abcdefgh" on a fresh 64-bit object.
C6_Witness ==
    /\ w = 64
    /\ ret # Unit
    /\ last.op = "update_with_iter"
    /\ last.pre = new(w)
    /\ last.arg = Abcdefgh(w)

\* C7: value() returns b * 2^blockBits + a and leaves the halves unchanged;
\* on an object made by new() and not yet updated it returns 0.
C7_ValueIsConcat ==
    [][ret' # Unit =>
          /\ f' = f
          /\ ret' = Concat(f)
          /\ (built.ctor = "new" /\ hist = <<>>) =>
                ret' = Zero(size_of_result_type(w))]_vars

\* C7 witness: value() read from an object whose halves are non-zero and
\* differ.
C7_Witness ==
    /\ ret # Unit
    /\ ret = Concat(f)
    /\ f.a # Zero(size_of_block_type(w))
    /\ f.b # Zero(size_of_block_type(w))
    /\ f.a # f.b

\* C8: no operation panics.  LANES and every lane index convert to the
\* block type; in the last update call the split index is within the slice,
\* every chunk has exactly NUM_LANES elements, the buffer index stays below
\* NUM_LANES, and the a half is the sum modulo 2^blockBits (it wraps).
C8_NoPanic ==
    LET L    == NUM_LANES(w)
        size == size_of_block_type(w)
        mid  == Len(last.arg) - (Len(last.arg) % L)
        fm   == FilterMap([simd_vec |-> SimdDefault(L, size), simd_size |-> 0,
                           out |-> <<>>, ok |-> TRUE],
                          last.arg, 1, Len(last.arg), L)
    IN  /\ ~panicked
        /\ \A i \in 0..L : try_from(i, size).ok
        /\ value(w, f).ok
        /\ IsUpdate =>
              /\ mid >= 0 /\ mid <= Len(last.arg)
              /\ \A c \in {Chunks(SubSeq(last.arg, 1, mid), L)[k] :
                              k \in 1..Len(Chunks(SubSeq(last.arg, 1, mid), L))} :
                    Len(c) = L
              /\ fm.ok /\ fm.simd_size < L
              /\ f.a = wrapping_add(last.pre.a, SumOf(last.arg, size))

\* C8 witness: value() read after an update_with_iter call that was given
\* more than one lane-group and a remainder and made the a half wrap.
C8_Witness ==
    /\ ~panicked
    /\ ret # Unit
    /\ last.op = "update_with_iter"
    /\ Len(last.arg) > NUM_LANES(w)
    /\ Len(last.arg) % NUM_LANES(w) # 0
    /\ Less(f.a, last.pre.a)

\* C9: update_fletcher_simd returns the halves update_fletcher_scalar returns
\* from the same incoming halves on the flattened lane-groups.
C9_SimdMatchesScalar ==
    last.op \in {"update_with_slice", "update_with_iter"} =>
        Halves(update_fletcher_simd(last.pre.a, last.pre.b,
                                    LaneGroups(last.arg, NUM_LANES(w)),
                                    NUM_LANES(w)))
        = Halves(update_fletcher_scalar(last.pre.a, last.pre.b,
                                        AlignedPrefix(last.arg, NUM_LANES(w))))

\* C10: the a half is the initial a plus the sum of every element pushed so
\* far, modulo 2^blockBits, whatever methods and call boundaries were used.
C10_LowHalfIsSum ==
    f.a = wrapping_add(built.self.a, SumOf(hist, size_of_block_type(w)))

\* C10 witness: a seeded object that took at least two lane-groups of
\* elements in more than one call, the last one scalar-only.
C10_Witness ==
    /\ built.ctor = "with_initial_values"
    /\ last.op = "update_with_iter_scalar"
    /\ last.arg # <<>>
    /\ Len(hist) > Len(last.arg)
    /\ Len(hist) >= 2 * NUM_LANES(w)
    /\ ~panicked

====
